---- MODULE Spec2Model ----
(***************************************************************************)
(* msal-cert: acquire_token (src/src/lib.rs) and the JWT header / payload  *)
(* construction (src/src/token/mod.rs), as a state machine.                *)
(*                                                                         *)
(* Text (Rust String / &str / Vec<u8>) is a sequence of byte values        *)
(* (ASCII codes), so that base64, PEM framing, JSON text and the compact   *)
(* token are computed character by character.                              *)
(***************************************************************************)
EXTENDS Integers, Sequences, FiniteSets, TLC

(***************************************************************************)
(* Bounds of the model.                                                    *)
(***************************************************************************)
\* number of acquire_token invocations explored one after the other
MaxCalls == 2

(***************************************************************************)
(* Text helpers.                                                           *)
(***************************************************************************)
\* sum of s[lo..hi], by halves
RECURSIVE SumRange(_, _, _)
SumRange(s, lo, hi) ==
    IF lo > hi THEN 0
    ELSE IF lo = hi THEN s[lo]
    ELSE LET mid == (lo + hi) \div 2
         IN  SumRange(s, lo, mid) + SumRange(s, mid + 1, hi)

\* sum of the bytes of s
Sum(s) == SumRange(s, 1, Len(s))

\* TRUE iff pat occurs in text at position i
MatchAt(text, pat, i) ==
    /\ i + Len(pat) - 1 <= Len(text)
    /\ \A k \in 1..Len(pat) : text[i + k - 1] = pat[k]

\* the least element of a non-empty set of numbers
Min(set) == CHOOSE x \in set : \A y \in set : x <= y

\* str::replace(pat, ""): every non-overlapping occurrence, left to right
RECURSIVE RemoveAll(_, _)
RemoveAll(text, pat) ==
    LET at == {i \in 1..Len(text) : MatchAt(text, pat, i)}
    IN  IF at = {} THEN text
        ELSE SubSeq(text, 1, Min(at) - 1)
             \o RemoveAll(SubSeq(text, Min(at) + Len(pat), Len(text)), pat)

\* ' ', \t, \n, \v, \f, \r
IsWhitespace(c) == c \in {32, 9, 10, 11, 12, 13}

\* str::trim()
RECURSIVE Trim(_)
Trim(text) ==
    IF text = <<>> THEN <<>>
    ELSE IF IsWhitespace(Head(text)) THEN Trim(Tail(text))
    ELSE IF IsWhitespace(text[Len(text)]) THEN Trim(SubSeq(text, 1, Len(text) - 1))
    ELSE text

\* number of occurrences of byte c in text
Count(text, c) == Cardinality({i \in 1..Len(text) : text[i] = c})

\* u64 Display: decimal digits, no sign, no leading zero
RECURSIVE Decimal(_)
Decimal(n) ==
    IF n < 10 THEN <<48 + n>> ELSE Decimal(n \div 10) \o <<48 + (n % 10)>>

(***************************************************************************)
(* base64 (the base64 crate): BASE64_STANDARD is the RFC 4648 alphabet     *)
(* with '=' padding; URL_SAFE_NO_PAD is the '-' '_' alphabet, unpadded.    *)
(***************************************************************************)
StandardChar(i) ==
    IF i < 26 THEN 65 + i
    ELSE IF i < 52 THEN 97 + (i - 26)
    ELSE IF i < 62 THEN 48 + (i - 52)
    ELSE IF i = 62 THEN 43 ELSE 47

UrlSafeChar(i) ==
    IF i < 62 THEN StandardChar(i) ELSE IF i = 62 THEN 45 ELSE 95

\* the k-th 6-bit group (k >= 1) of the bit string of data, zero-filled
Sextet(data, k) ==
    LET g  == (k - 1) \div 4
        j  == (k - 1) % 4
        n  == Len(data)
        b0 == data[3 * g + 1]
        b1 == IF 3 * g + 2 <= n THEN data[3 * g + 2] ELSE 0
        b2 == IF 3 * g + 3 <= n THEN data[3 * g + 3] ELSE 0
    IN  CASE j = 0 -> b0 \div 4
          [] j = 1 -> (b0 % 4) * 16 + b1 \div 16
          [] j = 2 -> (b1 % 16) * 4 + b2 \div 64
          [] j = 3 -> b2 % 64

\* number of 6-bit groups that carry data: ceil(8 n / 6)
SextetCount(n) == (8 * n + 5) \div 6

\* BASE64_STANDARD.encode
Base64StandardEncode(data) ==
    LET n == Len(data)
        m == SextetCount(n)
    IN  [k \in 1..(4 * ((n + 2) \div 3)) |->
            IF k <= m THEN StandardChar(Sextet(data, k)) ELSE 61]

\* base64::encode_config(_, URL_SAFE_NO_PAD)
Base64UrlSafeNoPadEncode(data) ==
    [k \in 1..SextetCount(Len(data)) |-> UrlSafeChar(Sextet(data, k))]

\* value of a character of the standard alphabet, -1 for any other byte
StandardValue(c) ==
    IF c >= 65 /\ c <= 90 THEN c - 65
    ELSE IF c >= 97 /\ c <= 122 THEN c - 97 + 26
    ELSE IF c >= 48 /\ c <= 57 THEN c - 48 + 52
    ELSE IF c = 43 THEN 62
    ELSE IF c = 47 THEN 63 ELSE -1

\* BASE64_STANDARD.decode: canonical padding required, no foreign byte,
\* no non-zero trailing bits.  [ok, data]
Base64StandardDecode(text) ==
    LET n    == Len(text)
        pads == IF n >= 2 /\ text[n] = 61 /\ text[n - 1] = 61 THEN 2
                ELSE IF n >= 1 /\ text[n] = 61 THEN 1 ELSE 0
        m    == n - pads
        v(k) == StandardValue(text[k])
        len  == (m * 6) \div 8
        byte(i) ==
            LET q == ((i - 1) \div 3) * 4
                r == (i - 1) % 3
            IN  CASE r = 0 -> v(q + 1) * 4 + v(q + 2) \div 16
                  [] r = 1 -> (v(q + 2) % 16) * 16 + v(q + 3) \div 4
                  [] r = 2 -> (v(q + 3) % 4) * 64 + v(q + 4)
        wellFormed ==
            /\ n % 4 = 0
            /\ \A k \in 1..m : v(k) >= 0
            /\ pads = 1 => v(m) % 4 = 0
            /\ pads = 2 => v(m) % 16 = 0
    IN  IF wellFormed
        THEN [ok |-> TRUE, data |-> [i \in 1..len |-> byte(i)]]
        ELSE [ok |-> FALSE, data |-> <<>>]

(***************************************************************************)
(* Results.  A Rust Result<T, Box<dyn Error>> is [ok, value, error]; an    *)
(* error is [type, msg], the concrete error type behind the Box and what   *)
(* its Display shows.                                                      *)
(***************************************************************************)
NoError == [type |-> "", msg |-> ""]

Ok(v) == [ok |-> TRUE, value |-> v, error |-> NoError]

Err(type, msg) == [ok |-> FALSE, value |-> <<>>, error |-> [type |-> type, msg |-> msg]]

(***************************************************************************)
(* token::aud                                                              *)
(***************************************************************************)
\* "https://login.microsoftonline.com/"
AudPrefix ==
    <<104, 116, 116, 112, 115, 58, 47, 47, 108, 111, 103, 105, 110, 46, 109,
      105, 99, 114, 111, 115, 111, 102, 116, 111, 110, 108, 105, 110, 101, 46,
      99, 111, 109, 47>>

\* "/oauth2/v2.0/token"
AudSuffix ==
    <<47, 111, 97, 117, 116, 104, 50, 47, 118, 50, 46, 48, 47, 116, 111, 107,
      101, 110>>

aud(tenant_id) == AudPrefix \o tenant_id \o AudSuffix

(***************************************************************************)
(* Certificates.  The caller's public_key_pem is [kind, der]: kind "x509"  *)
(* is a PEM file holding one certificate whose DER encoding is der, kind   *)
(* "garbage" is input X509::from_pem rejects.  to_pem re-encodes the DER   *)
(* as OpenSSL writes PEM: the BEGIN line, the base64 of the DER in lines   *)
(* of 64 characters, the END line, each ended by "\n".                     *)
(***************************************************************************)
\* "-----BEGIN CERTIFICATE-----"
PemBegin ==
    <<45, 45, 45, 45, 45, 66, 69, 71, 73, 78, 32, 67, 69, 82, 84, 73, 70, 73,
      67, 65, 84, 69, 45, 45, 45, 45, 45>>

\* "-----END CERTIFICATE-----"
PemEnd ==
    <<45, 45, 45, 45, 45, 69, 78, 68, 32, 67, 69, 82, 84, 73, 70, 73, 67, 65,
      84, 69, 45, 45, 45, 45, 45>>

\* "\n"
Newline == <<10>>

\* X509::from_pem
X509FromPem(pem) ==
    IF pem.kind = "x509"
    THEN Ok(pem.der)
    ELSE Err("openssl::ErrorStack", "PEM routines: no start line")

\* text cut into lines of at most 64 characters, each ended by "\n"
RECURSIVE PemLines(_)
PemLines(text) ==
    IF text = <<>> THEN <<>>
    ELSE IF Len(text) <= 64 THEN text \o Newline
    ELSE SubSeq(text, 1, 64) \o Newline \o PemLines(SubSeq(text, 65, Len(text)))

\* X509::to_pem
X509ToPem(der) ==
    PemBegin \o Newline \o PemLines(Base64StandardEncode(der)) \o PemEnd \o Newline

\* calc_pem that strips the armor but keeps the line breaks
calc_pem_KeepLineBreaks(public_key_pem) ==
    LET cert == X509FromPem(public_key_pem)
    IN  IF ~cert.ok THEN cert
        ELSE Ok(Trim(RemoveAll(RemoveAll(X509ToPem(cert.value), PemBegin), PemEnd)))

\* Header::calc_pem
calc_pem(public_key_pem) ==
    LET cert == X509FromPem(public_key_pem)
    IN  IF ~cert.ok THEN cert
        ELSE Ok(Trim(RemoveAll(RemoveAll(RemoveAll(X509ToPem(cert.value),
                                                   PemBegin),
                                         PemEnd),
                               Newline)))

\* openssl::hash::hash(MessageDigest::sha1(), data): a 20-byte digest that is
\* a fixed function of the data.  The compression function is abstracted to
\* a positional checksum; what is kept is the width and the determinism.
Sha1(data) ==
    LET n == Len(data)
        w == Sum([i \in 1..n |-> (data[i] * ((i % 7) + 1)) % 251])
    IN  [i \in 1..20 |-> (w * i + 31 * n + 7 * i) % 256]

\* Header::calc_x5t
calc_x5t(public_key_pem) ==
    LET data == Base64StandardDecode(public_key_pem)
    IN  IF ~data.ok
        THEN Err("base64::DecodeError", "Invalid byte or padding")
        ELSE Ok(Base64StandardEncode(Sha1(data.data)))

\* "RS256"
RS256 == <<82, 83, 50, 53, 54>>

\* Header::new
HeaderNew(public_key_pem) ==
    LET cert_pem == calc_pem(public_key_pem)
        x5t      == calc_x5t(cert_pem.value)
    IN  IF ~cert_pem.ok THEN cert_pem
        ELSE IF ~x5t.ok THEN x5t
        ELSE Ok([alg |-> RS256, x5t |-> x5t.value, x5c |-> <<cert_pem.value>>])

(***************************************************************************)
(* Payload.  SystemTime::now() is [secs, nanos] relative to UNIX_EPOCH;    *)
(* secs < 0 is a clock set before the epoch, for which duration_since      *)
(* returns Err and the unwrap panics.                                      *)
(***************************************************************************)
\* SystemTime::duration_since(UNIX_EPOCH)
DurationSinceEpoch(now) ==
    IF now.secs >= 0 THEN Ok(now) ELSE Err("SystemTimeError", "second time provided was later than self")

\* Duration::as_secs
as_secs(d) == d.secs

\* Payload::new with tenant_id and client_id taken in the other order
PayloadNew_SwappedIds(tenant_id, client_id, now, uuid) ==
    LET since == DurationSinceEpoch(now)
        issued_at == as_secs(since.value)
    IN  IF ~since.ok
        THEN [panic |-> TRUE, value |-> <<>>]
        ELSE [panic |-> FALSE,
              value |-> [iss |-> tenant_id,
                         aud |-> AudPrefix \o client_id \o AudSuffix,
                         sub |-> tenant_id,
                         nbf |-> issued_at,
                         exp |-> issued_at + 600,
                         jti |-> uuid]]

\* Payload::new with the expiry an absolute 600 instead of issued_at + 600
PayloadNew_AbsoluteExpiry(tenant_id, client_id, now, uuid) ==
    LET since == DurationSinceEpoch(now)
        issued_at == as_secs(since.value)
    IN  IF ~since.ok
        THEN [panic |-> TRUE, value |-> <<>>]
        ELSE [panic |-> FALSE,
              value |-> [iss |-> client_id,
                         aud |-> AudPrefix \o tenant_id \o AudSuffix,
                         sub |-> client_id,
                         nbf |-> issued_at,
                         exp |-> 600,
                         jti |-> uuid]]

\* Payload::new, given the clock reading and the uuid it draws.
\* [panic, value]
PayloadNew(tenant_id, client_id, now, uuid) ==
    LET since == DurationSinceEpoch(now)
        issued_at == as_secs(since.value)
        expiration_time == issued_at + 600
    IN  IF ~since.ok
        THEN [panic |-> TRUE, value |-> <<>>]
        ELSE [panic |-> FALSE,
              value |-> [iss |-> client_id,
                         aud |-> aud(tenant_id),
                         sub |-> client_id,
                         nbf |-> issued_at,
                         exp |-> expiration_time,
                         jti |-> uuid]]

(***************************************************************************)
(* serde_json: json!(value).to_string().  A struct becomes an object whose *)
(* keys are written in sorted order (serde_json's Map is a BTreeMap), with *)
(* no white space.  Strings are quoted, '"' and '\' escaped; bytes below   *)
(* 0x20 do not occur in the inputs explored.                               *)
(***************************************************************************)
RECURSIVE JsonEscape(_)
JsonEscape(text) ==
    LET at == {i \in 1..Len(text) : text[i] \in {34, 92}}
    IN  IF at = {} THEN text
        ELSE SubSeq(text, 1, Min(at) - 1) \o <<92, text[Min(at)]>>
             \o JsonEscape(SubSeq(text, Min(at) + 1, Len(text)))

JsonString(text) == <<34>> \o JsonEscape(text) \o <<34>>

\* members: a sequence of <<key, value text>>, keys already in order
RECURSIVE JsonMembers(_)
JsonMembers(members) ==
    IF members = <<>> THEN <<>>
    ELSE JsonString(Head(members)[1]) \o <<58>> \o Head(members)[2]
         \o (IF Len(members) > 1 THEN <<44>> ELSE <<>>)
         \o JsonMembers(Tail(members))

JsonObject(members) == <<123>> \o JsonMembers(members) \o <<125>>

\* a Vec<String>
RECURSIVE JsonStrings(_)
JsonStrings(texts) ==
    IF texts = <<>> THEN <<>>
    ELSE JsonString(Head(texts))
         \o (IF Len(texts) > 1 THEN <<44>> ELSE <<>>)
         \o JsonStrings(Tail(texts))

JsonArray(texts) == <<91>> \o JsonStrings(texts) \o <<93>>

\* the field names of Header and Payload
ALG == <<97, 108, 103>>

X5C == <<120, 53, 99>>

X5T == <<120, 53, 116>>

AUD == <<97, 117, 100>>

EXP == <<101, 120, 112>>

ISS == <<105, 115, 115>>

JTI == <<106, 116, 105>>

NBF == <<110, 98, 102>>

SUB == <<115, 117, 98>>

\* serde_json::json!(header).to_string():  {"alg":..,"x5c":[..],"x5t":..}
HeaderJson(header) ==
    JsonObject(<< <<ALG, JsonString(header.alg)>>,
                  <<X5C, JsonArray(header.x5c)>>,
                  <<X5T, JsonString(header.x5t)>> >>)

\* serde_json::json!(payload).to_string():
\* {"aud":..,"exp":..,"iss":..,"jti":..,"nbf":..,"sub":..}
PayloadJson(payload) ==
    JsonObject(<< <<AUD, JsonString(payload.aud)>>,
                  <<EXP, Decimal(payload.exp)>>,
                  <<ISS, JsonString(payload.iss)>>,
                  <<JTI, JsonString(payload.jti)>>,
                  <<NBF, Decimal(payload.nbf)>>,
                  <<SUB, JsonString(payload.sub)>> >>)

(***************************************************************************)
(* Signing.  The caller's private_key_pem is [kind, secret]: kind "RSA" or *)
(* "ED25519" is a PEM private key of that type, "garbage" is input that    *)
(* PKey::private_key_from_pem rejects.                                     *)
(***************************************************************************)
\* PKey::private_key_from_pem
PrivateKeyFromPem(pem) ==
    IF pem.kind = "garbage"
    THEN Err("openssl::ErrorStack", "PEM routines: no start line")
    ELSE Ok([id |-> pem.kind, secret |-> pem.secret])

\* openssl Signer::new(MessageDigest::sha256(), key): EVP_DigestSignInit
\* refuses a digest for an Ed25519 key
SignerNew(key) ==
    IF key.id = "ED25519"
    THEN Err("jwt::Error::OpenSsl", "EVP_DigestSignInit failed")
    ELSE Ok(key)

\* Signer::sign_to_vec: the signature bytes, as long as the key's secret,
\* a fixed function of the key and of the message.  The RSA arithmetic is
\* abstracted to a keyed checksum.
SignToVec(key, message) ==
    LET w == Sum(message) + 131 * Len(message)
    IN  [i \in 1..Len(key.secret) |-> (w * i + key.secret[i] + 17 * i) % 256]

\* "."
SEPARATOR == <<46>>

\* sign that feeds the signer the claims only
sign_ClaimsOnly(algorithm, header, claims) ==
    LET signer == SignerNew(algorithm.key)
    IN  IF ~signer.ok THEN signer
        ELSE Ok(Base64UrlSafeNoPadEncode(SignToVec(algorithm.key, claims)))

\* <PKeyWithDigest as jwt::SigningAlgorithm>::sign(header, claims)
sign(algorithm, header, claims) ==
    LET signer == SignerNew(algorithm.key)
    IN  IF ~signer.ok THEN signer
        ELSE Ok(Base64UrlSafeNoPadEncode(
                    SignToVec(algorithm.key, header \o SEPARATOR \o claims)))

\* format!("{}.{}.{}", header_base64, payload_base64, result)
ClientAssertion(header_base64, payload_base64, result) ==
    header_base64 \o <<46>> \o payload_base64 \o <<46>> \o result

(***************************************************************************)
(* The form parameters.                                                    *)
(***************************************************************************)
\* "urn:ietf:params:oauth:client-assertion-type:jwt-bearer"
JwtBearer ==
    <<117, 114, 110, 58, 105, 101, 116, 102, 58, 112, 97, 114, 97, 109, 115,
      58, 111, 97, 117, 116, 104, 58, 99, 108, 105, 101, 110, 116, 45, 97,
      115, 115, 101, 114, 116, 105, 111, 110, 45, 116, 121, 112, 101, 58, 106,
      119, 116, 45, 98, 101, 97, 114, 101, 114>>

\* "client_credentials"
ClientCredentials ==
    <<99, 108, 105, 101, 110, 116, 95, 99, 114, 101, 100, 101, 110, 116, 105,
      97, 108, 115>>

\* "openid profile offline_access "
FixedScopes ==
    <<111, 112, 101, 110, 105, 100, 32, 112, 114, 111, 102, 105, 108, 101, 32,
      111, 102, 102, 108, 105, 110, 101, 95, 97, 99, 99, 101, 115, 115, 32>>

\* the scope passed through without the fixed scopes
all_scope_PassThrough(scope) == scope

\* format!("openid profile offline_access {}", scope)
all_scope(scope) == FixedScopes \o scope

\* the HashMap params after the five inserts
Params(scope, client_assertion, client_id) ==
    [client_assertion_type |-> JwtBearer,
     grant_type            |-> ClientCredentials,
     scope                 |-> all_scope(scope),
     client_assertion      |-> client_assertion,
     client_id             |-> client_id]

(***************************************************************************)
(* The response.  A response body is kept at the level of its lexemes: a   *)
(* text is a sequence of tokens [t, s, n], t one of "{" "}" ":" "," (the   *)
(* punctuation), "str" (a JSON string, s its content), "num" (a JSON       *)
(* integer, n its value) and "junk" (characters that start no JSON value). *)
(***************************************************************************)
P(c) == [t |-> c, s |-> "", n |-> 0]

S(x) == [t |-> "str", s |-> x, n |-> 0]

N(k) == [t |-> "num", s |-> "", n |-> k]

J(x) == [t |-> "junk", s |-> x, n |-> 0]

\* the fields of struct AccessTokenResponse
ResponseFields == {"token_type", "expires_in", "ext_expires_in", "access_token"}

\* those of type String; the others are u64
StringFields == {"token_type", "access_token"}

JsonError(msg) == Err("serde_json::Error", msg)

\* the end of the derived visit_map, then Deserializer::end()
FinishMap(toks, i, got) ==
    IF \E f \in ResponseFields : ~got[f].set
    THEN JsonError("missing field")
    ELSE IF i <= Len(toks)
    THEN JsonError("trailing characters")
    ELSE Ok([token_type     |-> got["token_type"].tok.s,
             expires_in     |-> got["expires_in"].tok.n,
             ext_expires_in |-> got["ext_expires_in"].tok.n,
             access_token   |-> got["access_token"].tok.s])

\* the derived visit_map over the members of the object, from token i on;
\* got: the fields read so far; first: no member has been read yet
RECURSIVE VisitMap(_, _, _, _)
VisitMap(toks, i, got, first) ==
    LET key == toks[i]
        val == toks[i + 2]
        known == key.s \in ResponseFields
        got2 == IF known
                THEN [got EXCEPT ![key.s] = [set |-> TRUE, tok |-> val]]
                ELSE got
    IN  IF i > Len(toks) THEN JsonError("EOF while parsing an object")
        ELSE IF key.t = "}" /\ first THEN FinishMap(toks, i + 1, got)
        ELSE IF key.t = "}" THEN JsonError("trailing comma")
        ELSE IF key.t # "str" THEN JsonError("key must be a string")
        ELSE IF i + 1 > Len(toks) THEN JsonError("EOF while parsing an object")
        ELSE IF toks[i + 1].t # ":" THEN JsonError("expected colon")
        ELSE IF i + 2 > Len(toks) THEN JsonError("EOF while parsing a value")
        ELSE IF val.t \notin {"str", "num"} THEN JsonError("expected value")
        ELSE IF known /\ got[key.s].set THEN JsonError("duplicate field")
        ELSE IF known /\ key.s \in StringFields /\ val.t # "str"
        THEN JsonError("invalid type: expected a string")
        ELSE IF known /\ key.s \notin StringFields /\ val.t # "num"
        THEN JsonError("invalid type: expected u64")
        ELSE IF known /\ key.s \notin StringFields /\ val.n < 0
        THEN JsonError("invalid value: expected u64")
        ELSE IF i + 3 > Len(toks) THEN JsonError("EOF while parsing an object")
        ELSE IF toks[i + 3].t = "," THEN VisitMap(toks, i + 4, got2, FALSE)
        ELSE IF toks[i + 3].t = "}" THEN FinishMap(toks, i + 4, got2)
        ELSE JsonError("expected comma or closing brace")

\* serde_json::from_str::<AccessTokenResponse>(&body_text)
FromStr(body_text) ==
    IF body_text = <<>> THEN JsonError("EOF while parsing a value")
    ELSE IF body_text[1].t = "{"
    THEN VisitMap(body_text, 2,
                  [f \in ResponseFields |-> [set |-> FALSE, tok |-> P("")]],
                  TRUE)
    ELSE IF body_text[1].t \in {"str", "num"}
    THEN JsonError("invalid type: expected struct AccessTokenResponse")
    ELSE JsonError("expected value")

(***************************************************************************)
(* The inputs explored.                                                    *)
(***************************************************************************)
\* "t-1", "72f"
Tenants == {<<116, 45, 49>>, <<55, 50, 102>>}

\* "app", "a\"b"
Clients == {<<97, 112, 112>>, <<97, 34, 98>>}

\* ".default", "api://x/.default"
Scopes ==
    {<<46, 100, 101, 102, 97, 117, 108, 116>>,
     <<97, 112, 105, 58, 47, 47, 120, 47, 46, 100, 101, 102, 97, 117, 108, 116>>}

PrivateKeys ==
    {[kind |-> "garbage", secret |-> <<>>],
     [kind |-> "RSA",     secret |-> <<201, 15, 218, 162, 33, 104, 194, 52>>],
     [kind |-> "ED25519", secret |-> <<157, 97, 177, 157, 239, 253, 90, 96>>]}

\* n bytes standing for the DER encoding of a certificate
Der(n) == [i \in 1..n |-> (37 * i + 11) % 256]

\* a file that is no certificate; a certificate whose base64 is one short
\* padded line; one whose base64 fills more than one PEM line
Certificates ==
    {[kind |-> "garbage", der |-> <<>>],
     [kind |-> "x509",    der |-> Der(1)],
     [kind |-> "x509",    der |-> Der(50)]}

\* SystemTime::now(): before the epoch, the epoch, a recent instant
Clocks ==
    {[secs |-> -1,         nanos |-> 0],
     [secs |-> 0,          nanos |-> 0],
     [secs |-> 1700000000, nanos |-> 999999999]}

\* uuid::Uuid::new_v4().to_string()
Uuids ==
    {\* "6f1c2a9e-3b7d-4c51-8e2f-0a9b8c7d6e5f"
     <<54, 102, 49, 99, 50, 97, 57, 101, 45, 51, 98, 55, 100, 45, 52, 99, 53,
       49, 45, 56, 101, 50, 102, 45, 48, 97, 57, 98, 56, 99, 55, 100, 54, 101,
       53, 102>>,
     \* "b3e0d4a1-7c26-4f98-a5d3-1e2f3a4b5c6d"
     <<98, 51, 101, 48, 100, 52, 97, 49, 45, 55, 99, 50, 54, 45, 52, 102, 57,
       56, 45, 97, 53, 100, 51, 45, 49, 101, 50, 102, 51, 97, 52, 98, 53, 99,
       54, 100>>}

\* HTTP status codes of the response
Statuses == {200, 400}

\* {"token_type":"Bearer","expires_in":3599,"ext_expires_in":3599,"access_token":"abc"}
TokenBody ==
    <<P("{"), S("token_type"), P(":"), S("Bearer"), P(","),
      S("expires_in"), P(":"), N(3599), P(","),
      S("ext_expires_in"), P(":"), N(3599), P(","),
      S("access_token"), P(":"), S("abc"), P("}")>>

\* {"error":"invalid_client","error_description":"AADSTS700027"}
ProviderErrorBody ==
    <<P("{"), S("error"), P(":"), S("invalid_client"), P(","),
      S("error_description"), P(":"), S("AADSTS700027"), P("}")>>

\* <html>Bad Gateway</html>
HtmlBody == <<J("<html>Bad Gateway</html>")>>

\* the token body cut before its closing brace
TruncatedBody == SubSeq(TokenBody, 1, 16)

\* the token body with "expires_in":"3599"
WrongTypeBody == [TokenBody EXCEPT ![8] = S("3599")]

\* the token body with one more member, "scope":"x"
ExtraFieldBody ==
    SubSeq(TokenBody, 1, 16) \o <<P(","), S("scope"), P(":"), S("x"), P("}")>>

Bodies ==
    {TokenBody, ProviderErrorBody, HtmlBody, <<>>, TruncatedBody, WrongTypeBody,
     ExtraFieldBody}

\* what send().await can produce: a transport error, or a response whose
\* body can be read, or a response whose body read fails
SendOutcomes ==
    {[sent |-> FALSE, status |-> 0, body |-> <<>>, readable |-> FALSE]}
    \cup {[sent |-> TRUE, status |-> st, body |-> b, readable |-> TRUE] :
            st \in Statuses, b \in Bodies}
    \cup {[sent |-> TRUE, status |-> st, body |-> <<>>, readable |-> FALSE] :
            st \in Statuses}

(***************************************************************************)
(* The state: the invocation of acquire_token in progress.                 *)
(***************************************************************************)
VARIABLES
    calls,            \* invocations started so far
    pc,               \* position in acquire_token
    tenant_id, client_id, scope, private_key_pem, public_key_pem,  \* arguments
    algorithm,        \* PKeyWithDigest {digest, key}
    header,           \* token::Header
    payload,          \* token::Payload
    now,              \* the clock reading Payload::new took
    header_base64, payload_base64,
    result,           \* the signature text
    client_assertion,
    params,           \* the form fields
    posts,            \* the requests this invocation has sent
    res,              \* the response
    body_text,
    stdout,           \* the lines this invocation has printed
    ret,              \* how the invocation ended
    headers           \* every Header::new result so far, with its input

args == <<tenant_id, client_id, scope, private_key_pem, public_key_pem>>

locals == <<algorithm, header, payload, now, header_base64, payload_base64,
            result, client_assertion, params, res, body_text>>

vars == <<calls, pc, args, locals, posts, stdout, ret, headers>>

NoKey == [id |-> "", secret |-> <<>>]

NoAlgorithm == [digest |-> "", key |-> NoKey]

NoHeader == [alg |-> <<>>, x5t |-> <<>>, x5c |-> <<>>]

NoPayload == [iss |-> <<>>, aud |-> <<>>, sub |-> <<>>, nbf |-> 0, exp |-> 0, jti |-> <<>>]

NoClock == [secs |-> 0, nanos |-> 0]

NoParams == [client_assertion_type |-> <<>>, grant_type |-> <<>>, scope |-> <<>>,
             client_assertion |-> <<>>, client_id |-> <<>>]

NoResponse == [sent |-> FALSE, status |-> 0, body |-> <<>>, readable |-> FALSE]

NoToken == [token_type |-> "", expires_in |-> 0, ext_expires_in |-> 0, access_token |-> ""]

Pending == [kind |-> "pending", token |-> NoToken, error |-> NoError]

\* return Ok(token)
ReturnOk(token) == [kind |-> "Ok", token |-> token, error |-> NoError]

\* return Err(e.into()), also what the ? operator returns
ReturnErr(e) == [kind |-> "Err", token |-> NoToken, error |-> e]

\* Result::unwrap on an Err: the invocation panics
Panic(e) == [kind |-> "panic", token |-> NoToken, error |-> e]

Init ==
    /\ calls = 0
    /\ pc = "idle"
    /\ tenant_id = <<>>
    /\ client_id = <<>>
    /\ scope = <<>>
    /\ private_key_pem = [kind |-> "garbage", secret |-> <<>>]
    /\ public_key_pem = [kind |-> "garbage", der |-> <<>>]
    /\ algorithm = NoAlgorithm
    /\ header = NoHeader
    /\ payload = NoPayload
    /\ now = NoClock
    /\ header_base64 = <<>>
    /\ payload_base64 = <<>>
    /\ result = <<>>
    /\ client_assertion = <<>>
    /\ params = NoParams
    /\ res = NoResponse
    /\ body_text = <<>>
    /\ posts = <<>>
    /\ stdout = <<>>
    /\ ret = Pending
    /\ headers = {}

\* a caller invokes acquire_token(tenant_id, client_id, scope, &private, &public)
Call ==
    /\ pc \in {"idle", "done"}
    /\ calls < MaxCalls
    /\ calls' = calls + 1
    /\ tenant_id' \in Tenants
    /\ client_id' \in Clients
    /\ scope' \in Scopes
    /\ private_key_pem' \in PrivateKeys
    /\ public_key_pem' \in Certificates
    /\ algorithm' = NoAlgorithm
    /\ header' = NoHeader
    /\ payload' = NoPayload
    /\ now' = NoClock
    /\ header_base64' = <<>>
    /\ payload_base64' = <<>>
    /\ result' = <<>>
    /\ client_assertion' = <<>>
    /\ params' = NoParams
    /\ res' = NoResponse
    /\ body_text' = <<>>
    /\ posts' = <<>>
    /\ stdout' = <<>>
    /\ ret' = Pending
    /\ pc' = "key"
    /\ UNCHANGED headers

\* let algorithm = PKeyWithDigest { digest: sha256, key: private_key_from_pem(..)? }
ParsePrivateKey ==
    /\ pc = "key"
    /\ LET key == PrivateKeyFromPem(private_key_pem)
       IN  IF key.ok
           THEN /\ algorithm' = [digest |-> "sha256", key |-> key.value]
                /\ pc' = "header"
                /\ UNCHANGED ret
           ELSE /\ ret' = ReturnErr(key.error)
                /\ pc' = "done"
                /\ UNCHANGED algorithm
    /\ UNCHANGED <<calls, args, header, payload, now, header_base64, payload_base64,
                   result, client_assertion, params, res, body_text, posts, stdout,
                   headers>>

\* let header = Header::new(&public_key_pem).unwrap_or_default()
NewHeader_UnwrapOrDefault ==
    /\ pc = "header"
    /\ LET h == HeaderNew(public_key_pem)
       IN  /\ headers' = headers \cup {[pem |-> public_key_pem, result |-> h]}
           /\ header' = IF h.ok THEN h.value ELSE NoHeader
           /\ pc' = "payload"
    /\ UNCHANGED <<calls, args, algorithm, payload, now, header_base64,
                   payload_base64, result, client_assertion, params, res,
                   body_text, posts, stdout, ret>>

\* let header = Header::new(&public_key_pem)?
NewHeader ==
    /\ pc = "header"
    /\ LET h == HeaderNew(public_key_pem)
       IN  /\ headers' = headers \cup {[pem |-> public_key_pem, result |-> h]}
           /\ IF h.ok
              THEN /\ header' = h.value
                   /\ pc' = "payload"
                   /\ UNCHANGED ret
              ELSE /\ ret' = ReturnErr(h.error)
                   /\ pc' = "done"
                   /\ UNCHANGED header
    /\ UNCHANGED <<calls, args, algorithm, payload, now, header_base64,
                   payload_base64, result, client_assertion, params, res,
                   body_text, posts, stdout>>

\* let payload = Payload::new(tenant_id.to_owned(), client_id.to_string())
NewPayload ==
    /\ pc = "payload"
    /\ \E clock \in Clocks, uuid \in Uuids :
          LET p == PayloadNew(tenant_id, client_id, clock, uuid)
          IN  /\ now' = clock
              /\ IF p.panic
                 THEN /\ ret' = Panic([type |-> "SystemTimeError",
                                       msg |-> "called Result::unwrap() on an Err value"])
                      /\ pc' = "done"
                      /\ UNCHANGED payload
                 ELSE /\ payload' = p.value
                      /\ pc' = "encode"
                      /\ UNCHANGED ret
    /\ UNCHANGED <<calls, args, algorithm, header, header_base64, payload_base64,
                   result, client_assertion, params, res, body_text, posts, stdout,
                   headers>>

\* header_json, payload_json, header_base64, payload_base64
Encode ==
    /\ pc = "encode"
    /\ header_base64' = Base64StandardEncode(HeaderJson(header))
    /\ payload_base64' = Base64StandardEncode(PayloadJson(payload))
    /\ pc' = "sign"
    /\ UNCHANGED <<calls, args, algorithm, header, payload, now, result,
                   client_assertion, params, res, body_text, posts, stdout, ret,
                   headers>>

\* let result = algorithm.sign(&header_base64, &payload_base64).unwrap();
\* let client_assertion = format!("{}.{}.{}", ..)
Sign ==
    /\ pc = "sign"
    /\ LET signed == sign(algorithm, header_base64, payload_base64)
       IN  IF signed.ok
           THEN /\ result' = signed.value
                /\ client_assertion' =
                       ClientAssertion(header_base64, payload_base64, signed.value)
                /\ pc' = "params"
                /\ UNCHANGED ret
           ELSE /\ ret' = Panic([type |-> signed.error.type,
                                 msg |-> "called Result::unwrap() on an Err value"])
                /\ pc' = "done"
                /\ UNCHANGED <<result, client_assertion>>
    /\ UNCHANGED <<calls, args, algorithm, header, payload, now, header_base64,
                   payload_base64, params, res, body_text, posts, stdout, headers>>

\* let client = reqwest::Client::new(); the five params.insert
BuildParams ==
    /\ pc = "params"
    /\ params' = Params(scope, client_assertion, client_id)
    /\ pc' = "send"
    /\ UNCHANGED <<calls, args, algorithm, header, payload, now, header_base64,
                   payload_base64, result, client_assertion, res, body_text,
                   posts, stdout, ret, headers>>

\* send() that tries again after a transport error
Send_Retry ==
    /\ pc = "send"
    /\ posts' = Append(posts, [method |-> "POST", url |-> aud(tenant_id),
                               form |-> params])
    /\ \E outcome \in SendOutcomes :
          IF outcome.sent
          THEN /\ res' = outcome
               /\ pc' = "text"
               /\ UNCHANGED ret
          ELSE IF Len(posts) < 2
          THEN /\ pc' = "send"
               /\ UNCHANGED <<res, ret>>
          ELSE /\ ret' = ReturnErr([type |-> "reqwest::Error",
                                    msg |-> "error sending request"])
               /\ pc' = "done"
               /\ UNCHANGED res
    /\ UNCHANGED <<calls, args, algorithm, header, payload, now, header_base64,
                   payload_base64, result, client_assertion, params, body_text,
                   stdout, headers>>

\* let res = client.post(aud(tenant_id.to_owned())).form(&params).send().await?
Send ==
    /\ pc = "send"
    /\ posts' = Append(posts, [method |-> "POST", url |-> aud(tenant_id),
                               form |-> params])
    /\ \E outcome \in SendOutcomes :
          IF outcome.sent
          THEN /\ res' = outcome
               /\ pc' = "text"
               /\ UNCHANGED ret
          ELSE /\ ret' = ReturnErr([type |-> "reqwest::Error",
                                    msg |-> "error sending request"])
               /\ pc' = "done"
               /\ UNCHANGED res
    /\ UNCHANGED <<calls, args, algorithm, header, payload, now, header_base64,
                   payload_base64, result, client_assertion, params, body_text,
                   stdout, headers>>

\* let body_text = match res.text().await { Ok(text) => text, Err(e) => return Err(e.into()) }
ReadText ==
    /\ pc = "text"
    /\ IF res.readable
       THEN /\ body_text' = res.body
            /\ pc' = "decode"
            /\ UNCHANGED ret
       ELSE /\ ret' = ReturnErr([type |-> "reqwest::Error",
                                 msg |-> "error decoding response body"])
            /\ pc' = "done"
            /\ UNCHANGED body_text
    /\ UNCHANGED <<calls, args, algorithm, header, payload, now, header_base64,
                   payload_base64, result, client_assertion, params, res, posts,
                   stdout, headers>>

\* the decode step preceded by res.error_for_status()?
Decode_ErrorForStatus ==
    /\ pc = "decode"
    /\ LET x == FromStr(body_text)
       IN  IF res.status >= 400
           THEN /\ ret' = ReturnErr([type |-> "reqwest::Error",
                                     msg |-> "HTTP status client error"])
                /\ UNCHANGED stdout
           ELSE IF x.ok
           THEN /\ ret' = ReturnOk(x.value)
                /\ UNCHANGED stdout
           ELSE /\ stdout' = Append(stdout, [what |-> "Error while parsing JSON",
                                             e |-> x.error,
                                             text |-> body_text])
                /\ ret' = ReturnErr(x.error)
    /\ pc' = "done"
    /\ UNCHANGED <<calls, args, locals, posts, headers>>

\* let x = serde_json::from_str(&body_text); match x { Ok(..) => Ok(..),
\* Err(e) => { println!(..); Err(e.into()) } }
Decode ==
    /\ pc = "decode"
    /\ LET x == FromStr(body_text)
       IN  IF x.ok
           THEN /\ ret' = ReturnOk(x.value)
                /\ UNCHANGED stdout
           ELSE /\ stdout' = Append(stdout, [what |-> "Error while parsing JSON",
                                             e |-> x.error,
                                             text |-> body_text])
                /\ ret' = ReturnErr(x.error)
    /\ pc' = "done"
    /\ UNCHANGED <<calls, args, locals, posts, headers>>

Next ==
    \/ Call
    \/ ParsePrivateKey
    \/ NewHeader
    \/ NewPayload
    \/ Encode
    \/ Sign
    \/ BuildParams
    \/ Send
    \/ ReadText
    \/ Decode

Spec == Init /\ [][Next]_vars

(***************************************************************************)
(* The properties.                                                         *)
(***************************************************************************)
\* TRUE iff pat occurs somewhere in text
Contains(text, pat) == \E i \in 1..Len(text) : MatchAt(text, pat, i)

\* the pieces of text between the occurrences of byte c
SplitAt(text, c) ==
    LET at == {i \in 1..Len(text) : text[i] = c}
        cuts == {0} \cup at \cup {Len(text) + 1}
        next(i) == Min({j \in cuts : j > i})
    IN  {SubSeq(text, i + 1, next(i) - 1) : i \in cuts \ {Len(text) + 1}}

\* C1: in an invocation whose certificate Header::new rejects, no request
\* is ever sent, the invocation never gets past the header step, and it
\* ends in a returned error.
C1_MalformedCertificateNoPost ==
    (calls > 0 /\ ~HeaderNew(public_key_pem).ok) =>
        /\ posts = <<>>
        /\ pc \in {"key", "header", "done"}
        /\ pc = "done" => ret.kind = "Err"

\* an invocation with a good private key and a rejected certificate has ended
C1_Witness ==
    /\ pc = "done"
    /\ PrivateKeyFromPem(private_key_pem).ok
    /\ ~HeaderNew(public_key_pem).ok
    /\ ret.kind = "Err"
    /\ ret.error = HeaderNew(public_key_pem).error
    /\ posts = <<>>

\* the invocation read a body that does not parse as AccessTokenResponse
DecodeFailed ==
    /\ pc = "done"
    /\ res.sent
    /\ res.readable
    /\ ~FromStr(body_text).ok

\* C2: when the body does not parse, the returned error carries the parse
\* error and the raw response text.
C2_DecodeErrorCarriesRawText ==
    DecodeFailed =>
        /\ ret.kind = "Err"
        /\ ret.error.type = "serde_json::Error"
        /\ ret.error.msg = FromStr(body_text).error.msg
        /\ "text" \in DOMAIN ret.error
        /\ ret.error.text = body_text

\* C3: every invocation ends in Ok or Err, never in a panic, and a signing
\* failure is returned as an error naming its cause.
C3_EveryFailureReturned ==
    pc = "done" =>
        /\ ret.kind \in {"Ok", "Err"}
        /\ (algorithm # NoAlgorithm /\ header_base64 # <<>>
            /\ ~sign(algorithm, header_base64, payload_base64).ok) =>
               /\ ret.kind = "Err"
               /\ ret.error = sign(algorithm, header_base64, payload_base64).error

\* C4: a payload that was built has exp - nbf = 600, exp > nbf and nbf the
\* whole seconds of the clock reading.
C4_ValidityWindow ==
    payload # NoPayload =>
        /\ payload.exp - payload.nbf = 600
        /\ payload.exp > payload.nbf
        /\ payload.nbf = now.secs
        /\ now.secs >= 0

\* a payload built from a clock reading with a fraction of a second
C4_Witness ==
    /\ payload # NoPayload
    /\ now.nanos > 0
    /\ payload.nbf = 1700000000
    /\ payload.exp = 1700000600

\* C5: when a request is sent, its URL is the aud claim of the signed
\* payload and is https://login.microsoftonline.com/<tenant_id>/oauth2/v2.0/token;
\* iss and sub are the client_id, which is also the client_id form field.
C5_AudienceIsEndpoint ==
    posts # <<>> =>
        LET signed == Base64StandardDecode(payload_base64)
        IN  /\ posts[1].url = payload.aud
            /\ posts[1].url = AudPrefix \o tenant_id \o AudSuffix
            /\ payload.iss = client_id
            /\ payload.sub = client_id
            /\ posts[1].form.client_id = client_id
            /\ signed.ok
            /\ signed.data = PayloadJson([iss |-> client_id,
                                          aud |-> posts[1].url,
                                          sub |-> client_id,
                                          nbf |-> payload.nbf,
                                          exp |-> payload.exp,
                                          jti |-> payload.jti])
            /\ MatchAt(client_assertion, <<46>> \o payload_base64 \o <<46>>,
                       Len(header_base64) + 1)

\* a request was sent for a client_id that JSON has to escape
C5_Witness ==
    /\ posts # <<>>
    /\ posts[1].url = payload.aud
    /\ Contains(client_id, <<34>>)
    /\ payload.iss = client_id

\* C6: a client assertion is headerB64 "." payloadB64 "." signatureB64, with
\* two "." and three non-empty segments, the signature being the one over
\* headerB64 "." payloadB64.
C6_CompactSerialization ==
    client_assertion # <<>> =>
        /\ client_assertion =
               header_base64 \o <<46>> \o payload_base64 \o <<46>> \o result
        /\ Count(client_assertion, 46) = 2
        /\ SplitAt(client_assertion, 46) = {header_base64, payload_base64, result}
        /\ \A seg \in SplitAt(client_assertion, 46) : seg # <<>>
        /\ Cardinality(SplitAt(client_assertion, 46)) = 3
        /\ result = Base64UrlSafeNoPadEncode(
                        SignToVec(algorithm.key,
                                  header_base64 \o <<46>> \o payload_base64))

\* a client assertion was built and sent
C6_Witness ==
    /\ client_assertion # <<>>
    /\ posts # <<>>
    /\ posts[1].form.client_assertion = client_assertion
    /\ Len(result) = 11

\* C7: the form of a request has exactly the five fields, with the fixed
\* values, the prefixed scope, the assertion of this invocation and the
\* client_id; nothing of the private key is in the request.
C7_FormFields ==
    posts # <<>> =>
        LET form == posts[1].form
        IN  /\ DOMAIN posts[1] = {"method", "url", "form"}
            /\ posts[1].method = "POST"
            /\ DOMAIN form = {"client_assertion_type", "grant_type", "scope",
                              "client_assertion", "client_id"}
            /\ form.client_assertion_type = JwtBearer
            /\ form.grant_type = ClientCredentials
            /\ form.scope = FixedScopes \o scope
            /\ form.client_assertion = client_assertion
            /\ client_assertion # <<>>
            /\ form.client_id = client_id
            /\ \A f \in DOMAIN form : ~Contains(form[f], private_key_pem.secret)
            /\ ~Contains(posts[1].url, private_key_pem.secret)

\* a request was sent with the longer scope
C7_Witness ==
    /\ posts # <<>>
    /\ Len(scope) = 16
    /\ Len(posts[1].form.scope) = 46

\* C8: an invocation sends at most one request; one that ended in a
\* transport error or a decode error sent exactly one.
C8_SinglePost ==
    /\ Len(posts) <= 1
    /\ (pc = "done" /\ ret.error.type \in {"reqwest::Error", "serde_json::Error"}) =>
           Len(posts) = 1
    /\ pc \in {"text", "decode"} => Len(posts) = 1

\* an invocation ended in a transport error of send()
C8_Witness ==
    /\ pc = "done"
    /\ ret.kind = "Err"
    /\ ret.error.type = "reqwest::Error"
    /\ ~res.sent
    /\ Len(posts) = 1

\* C9: for a well-formed certificate Header::new returns alg "RS256", one
\* x5c element which is the base64 of the DER without armor or line breaks,
\* and a non-empty x5t which is the base64 of the SHA-1 of the bytes x5c[1]
\* decodes to; two calls with the same certificate return the same header.
C9_HeaderOfCertificate ==
    /\ \A h \in headers :
          h.pem.kind = "x509" =>
              /\ h.result.ok
              /\ h.result.value.alg = <<82, 83, 50, 53, 54>>
              /\ Len(h.result.value.x5c) = 1
              /\ h.result.value.x5c[1] = Base64StandardEncode(h.pem.der)
              /\ ~Contains(h.result.value.x5c[1], <<10>>)
              /\ ~Contains(h.result.value.x5c[1], <<45>>)
              /\ h.result.value.x5t # <<>>
              /\ Base64StandardDecode(h.result.value.x5c[1]).ok
              /\ Base64StandardDecode(h.result.value.x5c[1]).data = h.pem.der
              /\ h.result.value.x5t =
                     Base64StandardEncode(
                         Sha1(Base64StandardDecode(h.result.value.x5c[1]).data))
    /\ \A a, b \in headers : a.pem = b.pem => a.result = b.result
    /\ (header # NoHeader /\ public_key_pem.kind = "x509") =>
           [pem |-> public_key_pem, result |-> Ok(header)] \in headers

\* the second invocation has built the header of a certificate whose base64
\* fills more than one PEM line
C9_Witness ==
    /\ calls = 2
    /\ header # NoHeader
    /\ Len(public_key_pem.der) = 50
    /\ Len(header.x5c[1]) = 68
    /\ Len(header.x5t) = 28

\* C10: once the body was read, the outcome is that of parsing the body,
\* whatever the status: the token body gives Ok with its values, the
\* provider's error object and every other body that does not parse give Err.
C10_OutcomeFromBodyOnly ==
    (pc = "done" /\ res.sent /\ res.readable) =>
        /\ body_text = res.body
        /\ ret = (IF FromStr(res.body).ok
                  THEN ReturnOk(FromStr(res.body).value)
                  ELSE ReturnErr(FromStr(res.body).error))
        /\ res.body = TokenBody =>
               ret = ReturnOk([token_type |-> "Bearer", expires_in |-> 3599,
                               ext_expires_in |-> 3599, access_token |-> "abc"])
        /\ res.body = ProviderErrorBody => ret.kind = "Err"
        /\ res.body \in {HtmlBody, <<>>, TruncatedBody, WrongTypeBody} => ret.kind = "Err"

\* a token body under status 400 ended in Ok
C10_Witness ==
    /\ pc = "done"
    /\ res.sent
    /\ res.status = 400
    /\ res.body = TokenBody
    /\ ret.kind = "Ok"
    /\ ret.token.access_token = "abc"
====
